---------------------------- MODULE Spec2Model ----------------------------
(***************************************************************************)
(* Model of the Jaal SPARQL dashboard (src/jaal/jaal.py, layout.py):       *)
(* the session object `Jaal` (full data, filtered data, colour mappings,   *)
(* pending query, query history and its counter), the graph the browser    *)
(* holds, and the Dash callbacks that act on them.                         *)
(*                                                                         *)
(* Text is a sequence of symbols.  A symbol is one character ("2", ":",    *)
(* " ", "\n", "A") or a word that contains no digit, colon or blank, so    *)
(* that concatenation and substring search (str.partition) behave on a     *)
(* sequence of symbols as they do on the Python string.                    *)
(***************************************************************************)
EXTENDS Integers, Sequences, FiniteSets, TLC

\* ------------------------------------------------------------------ bounds
MaxHistory == 2      \* successful evaluations recorded before the model stops evaluating
MaxQueryLen == 6     \* symbols in the pending query buffer
MaxNodeSize == 28    \* size-by-attribute runs only while every node is smaller than this

\* ------------------------------------------------------- program constants
DEFAULT_NODE_SIZE == 7
DEFAULT_EDGE_SIZE == 1
DEFAULT_COLOR == "#97C2FC"
KELLY_COLORS_HEX ==
    << "#FFB300", "#A6BDD7", "#803E75", "#FF6800", "#C10020", "#CEA262",
       "#817066", "#007D34", "#F6768E", "#00538A", "#FF7A5C", "#53377A",
       "#FF8E00", "#B32851", "#F4C800", "#7F180D", "#93AA00", "#593315",
       "#F13A13", "#232C16" >>
SliderMin == 1
SliderMax == 5
SliderInit == 3
UniqueLimit == 20
\* float('nan'), which no size of the model equals
NaN == 0 - 1

NO_QUERY_MSG == << "No SPARQL query entered" >>
INVALID_QUERY_MSG == << "Not a valid SPARQL query." >>

\* ------------------------------------------------------------------- text
Min(a, b) == IF a < b THEN a ELSE b
Max(a, b) == IF a > b THEN a ELSE b

Digit(d) == << "0", "1", "2", "3", "4", "5", "6", "7", "8", "9" >>[d + 1]

RECURSIVE IntToStr(_)
\* str(n) for a natural number n
IntToStr(n) == IF n < 10 THEN << Digit(n) >>
               ELSE IntToStr(n \div 10) \o << Digit(n % 10) >>

\* the positions at which sep occurs in s
Occurrences(s, sep) ==
    { i \in 1..(Len(s) - Len(sep) + 1) : SubSeq(s, i, i + Len(sep) - 1) = sep }

\* s.partition(sep): split at the FIRST occurrence of sep
partition(s, sep) ==
    IF Occurrences(s, sep) = {}
    THEN << s, << >>, << >> >>
    ELSE LET i == CHOOSE k \in Occurrences(s, sep) :
                      \A j \in Occurrences(s, sep) : k <= j
         IN  << SubSeq(s, 1, i - 1), sep, SubSeq(s, i + Len(sep), Len(s)) >>

\* sub in s
Contains(s, sub) == Len(sub) = 0 \/ Occurrences(s, sub) # {}

\* the sequences over S of length at most n
SeqsUpTo(S, n) == UNION { [1..k -> S] : k \in 0..n }

RECURSIVE Concat(_)
\* the concatenation of a sequence of texts
Concat(ss) == IF ss = << >> THEN << >> ELSE Head(ss) \o Concat(Tail(ss))


\* ------------------------------------------------- the graph being loaded
\* parse_dataframe(edge_df, node_df) of jaal/datasets is the source of the
\* records; the data set below is one ontology graph in the visdcc format.
NodeIds == << "A", "B", "C" >>
EdgeIds == << "e1", "e2" >>

\* the columns of pd.DataFrame(data['nodes']) and of pd.DataFrame(data['edges'])
NodeColumns == << "id", "label", "TA", "shape", "title", "color", "size", "weight" >>
EdgeColumns == << "id", "from", "to", "label", "arrows", "color", "width", "weight" >>
\* the columns of dtype 'object' (strings), the others are numeric
ObjectColumns == { "id", "label", "TA", "shape", "title", "color", "from", "to", "arrows" }

InitialNodes ==
    [ A |-> [ id |-> "A", label |-> << "A" >>, TA |-> "T", shape |-> "dot", title |-> "",
              color |-> DEFAULT_COLOR, size |-> DEFAULT_NODE_SIZE, weight |-> 0,
              hidden |-> FALSE ],
      B |-> [ id |-> "B", label |-> << "B" >>, TA |-> "A", shape |-> "dot", title |-> "",
              color |-> DEFAULT_COLOR, size |-> DEFAULT_NODE_SIZE, weight |-> 1,
              hidden |-> FALSE ],
      C |-> [ id |-> "C", label |-> << "C" >>, TA |-> "A", shape |-> "dot", title |-> "",
              color |-> DEFAULT_COLOR, size |-> DEFAULT_NODE_SIZE, weight |-> 2,
              hidden |-> FALSE ] ]

InitialEdges ==
    [ e1 |-> [ id |-> "e1", from |-> "A", to |-> "B", label |-> << "knows" >>,
               arrows |-> "to", color |-> DEFAULT_COLOR, width |-> DEFAULT_EDGE_SIZE,
               weight |-> 2 ],
      e2 |-> [ id |-> "e2", from |-> "B", to |-> "C", label |-> << "likes" >>,
               arrows |-> "to", color |-> DEFAULT_COLOR, width |-> DEFAULT_EDGE_SIZE,
               weight |-> 3 ] ]

\* the ScalingTable: {min, max} of every numeric node column over the full set
RECURSIVE SeqMin(_)
SeqMin(s) == IF Len(s) = 1 THEN s[1] ELSE Min(s[1], SeqMin(Tail(s)))
RECURSIVE SeqMax(_)
SeqMax(s) == IF Len(s) = 1 THEN s[1] ELSE Max(s[1], SeqMax(Tail(s)))

\* numpy: the bounds are numpy scalars (what pandas' min() and max() return),
\* not Python numbers
ScalingVarsOf(nodes, node_ids, numpy) ==
    [ node |-> [ weight |->
        [ min |-> SeqMin([i \in 1..Len(node_ids) |-> nodes[node_ids[i]].weight]),
          max |-> SeqMax([i \in 1..Len(node_ids) |-> nodes[node_ids[i]].weight]) ] ],
      numpy |-> numpy ]

InitialScalingVars == ScalingVarsOf(InitialNodes, NodeIds, FALSE)

\* a second ontology: one more node than the palette has colours, every node in
\* a technical area (TA) of its own
ManyNodeIds ==
    << "n01", "n02", "n03", "n04", "n05", "n06", "n07", "n08", "n09", "n10", "n11",
       "n12", "n13", "n14", "n15", "n16", "n17", "n18", "n19", "n20", "n21" >>
ManyTAs ==
    << "t01", "t02", "t03", "t04", "t05", "t06", "t07", "t08", "t09", "t10", "t11",
       "t12", "t13", "t14", "t15", "t16", "t17", "t18", "t19", "t20", "t21" >>
ManyEdgeIds == << "e1", "e2" >>

IndexIn(s, x) == CHOOSE i \in 1..Len(s) : s[i] = x

ManyNodes ==
    [ x \in { ManyNodeIds[i] : i \in 1..Len(ManyNodeIds) } |->
        [ id |-> x, label |-> << x >>, TA |-> ManyTAs[IndexIn(ManyNodeIds, x)],
          shape |-> "dot", title |-> "", color |-> DEFAULT_COLOR,
          size |-> DEFAULT_NODE_SIZE, weight |-> IndexIn(ManyNodeIds, x) % 3,
          hidden |-> FALSE ] ]

ManyEdges ==
    [ e1 |-> [ id |-> "e1", from |-> "n01", to |-> "n02", label |-> << "knows" >>,
               arrows |-> "to", color |-> DEFAULT_COLOR, width |-> DEFAULT_EDGE_SIZE,
               weight |-> 2 ],
      e2 |-> [ id |-> "e2", from |-> "n02", to |-> "n03", label |-> << "likes" >>,
               arrows |-> "to", color |-> DEFAULT_COLOR, width |-> DEFAULT_EDGE_SIZE,
               weight |-> 3 ] ]

\* a third ontology: the graph A, B, C with one weight for every node
FlatNodes == [ x \in DOMAIN InitialNodes |-> [ InitialNodes[x] EXCEPT !.weight = 1 ] ]

\* ------------------------------------------------ the ontology query engine
\* A bound term of a result row: a named ontology entity (it has .name) or a
\* primitive value (it has none, reading .name raises AttributeError).
Named(n) == [ kind |-> "entity", name |-> n ]
Prim(v) == [ kind |-> "primitive", value |-> v ]
HasName(t) == t.kind = "entity"

\* The queries the user types in the model, and what the engine does with each
\* on the loaded ontology: rows of bound terms, or a lexical error.  One text
\* declares the prefix p2 and so holds the characters "2: ".  Every other
\* text is a parse error, as is the empty query.
QueryTable ==
    << [ text |-> << "SELECT", " ", "?a" >>,
         out |-> [ kind |-> "rows", rows |-> << << Named("A") >> >> ] ],
       [ text |-> << "SELECT", " ", "?b" >>,
         out |-> [ kind |-> "rows",
                   rows |-> << << Named("B") >>, << Named("knows") >>, << Named("A") >> >> ] ],
       [ text |-> << "SELECT", " ", "?c" >>,
         out |-> [ kind |-> "rows", rows |-> << << Named("C"), Named("C") >> >> ] ],
       [ text |-> << "SELECT", " ", "?n" >>,
         out |-> [ kind |-> "rows", rows |-> << << Prim(3) >> >> ] ],
       [ text |-> << "SELECT", " ", "?m" >>,
         out |-> [ kind |-> "rows", rows |-> << << Named("A"), Prim(3) >> >> ] ],
       [ text |-> << "PREFIX p", "2", ":", " ", "<i> ASK {}" >>,
         out |-> [ kind |-> "rows", rows |-> << >> ] ],
       [ text |-> << "SELECT", " ", "%" >>,
         out |-> [ kind |-> "LexingError" ] ] >>

\* the text of the 'filter_nodes' text area when Add is clicked
TextAreaValues == { QueryTable[i].text : i \in 1..Len(QueryTable) }

\* list(self.onto.onto_world.sparql(query)): rows of bound terms, or
\* rply.ParsingError, or rply.LexingError
Sparql(query) ==
    IF \E i \in 1..Len(QueryTable) : query = << " " >> \o QueryTable[i].text
    THEN QueryTable[CHOOSE i \in 1..Len(QueryTable) :
                        query = << " " >> \o QueryTable[i].text].out
    ELSE [ kind |-> "ParsingError" ]

\* ------------------------------------------------------------- the panels
\* the collapses and popovers of the page Jaal serves by default (abox = True),
\* each with the button of its section; every one starts closed
PanelButton ==
    [ p \in { "edge-selection-show-toggle", "abox-dp-show-toggle", "template-show-toggle",
              "filter-show-toggle", "result-show-toggle", "history-show-toggle",
              "color-show-toggle", "size-show-toggle" } |->
        CASE p = "edge-selection-show-toggle" -> "edge-selection-show-toggle-button"
          [] p = "abox-dp-show-toggle" -> "abox-dp-show-toggle-button"
          [] p = "template-show-toggle" -> "template-show-toggle-button"
          [] p = "filter-show-toggle" -> "filter-show-toggle-button"
          [] p = "result-show-toggle" -> "result-show-toggle-button"
          [] p = "history-show-toggle" -> "history-show-toggle-button"
          [] p = "color-show-toggle" -> "color-show-toggle-button"
          [] p = "size-show-toggle" -> "size-show-toggle-button" ]
      @@ [ p \in { "info-sparql-popup" } |-> "info-sparql-query-button" ]
      @@ [ p \in { "color-legend-popup" } |-> "color-legend-toggle" ]

Panels == DOMAIN PanelButton

\* ------------------------------------------------------------------ state
VARIABLES
    pc,                        \* "constructed" after __init__, "running" once create() is done
    node,                      \* the node dicts, by id (shared by data and filtered_data)
    edge,                      \* the edge dicts, by id
    data,                      \* self.data: the lists data['nodes'], data['edges'] (ids)
    filtered_data,             \* self.filtered_data: its lists
    aliased,                   \* self.data is self.filtered_data (one dict object)
    node_value_color_mapping,  \* self.node_value_color_mapping
    edge_value_color_mapping,  \* self.edge_value_color_mapping
    sparql_query,              \* self.sparql_query, the pending query buffer
    sparql_query_history,      \* self.sparql_query_history
    counter_query_history,     \* self.counter_query_history
    query_history_length,      \* value of the slider 'query-history-length-slider'
    displayed,                 \* the browser's 'graph'.data
    input_id,                  \* the input that triggered the last setting_pane_callback
    outcome,                   \* what the query engine did in the last callback ("none" if not called)
    graph_data,                \* setting_pane_callback's graph_data at its return statement
    flat_res_list_children,    \* its result text
    sparql_query_history_children, \* its history view
    raised,                    \* the exception the last callback raised, "none" if it returned
    scaling_vars,              \* self.scaling_vars, the {min, max} of the numeric columns
    is_open,                   \* the is_open property of each collapse and popover of the page
    clicked,                   \* the panel button the user clicked last, "none" before any
    selection,                 \* the selection property of the graph: the selected ids
    on_select,                 \* the 'Select Edge/Node' switch is on
    options                    \* the options of the colour dropdowns of the page

vars == << pc, node, edge, data, filtered_data, aliased, node_value_color_mapping,
           edge_value_color_mapping, sparql_query, sparql_query_history,
           counter_query_history, query_history_length, displayed, input_id,
           outcome, graph_data, flat_res_list_children,
           sparql_query_history_children, raised, scaling_vars, is_open, clicked,
           selection, on_select, options >>

session == << node, edge, data, filtered_data, aliased, node_value_color_mapping,
              edge_value_color_mapping, sparql_query, sparql_query_history,
              counter_query_history >>

\* the selection on the graph and the switch that adds it to the query
selecting == << selection, on_select >>

\* everything but the panels and their buttons
settings == << pc, session, query_history_length, displayed, input_id, outcome,
               graph_data, flat_res_list_children, sparql_query_history_children,
               raised, scaling_vars, selecting, options >>

\* the records a graph dict holds, as serialised for the browser
Graph(d) == [ nodes |-> [i \in 1..Len(d.nodes) |-> node[d.nodes[i]]],
              edges |-> [i \in 1..Len(d.edges) |-> edge[d.edges[i]]] ]
GraphOf(d, nd, ed) == [ nodes |-> [i \in 1..Len(d.nodes) |-> nd[d.nodes[i]]],
                        edges |-> [i \in 1..Len(d.edges) |-> ed[d.edges[i]]] ]

Ids(recs) == { recs[i].id : i \in 1..Len(recs) }

\* Jaal.__init__ on the records parse_dataframe made of the ontology
Loaded(nodes, edges, node_ids, edge_ids, scaling) ==
    /\ pc = "constructed"
    /\ node = nodes
    /\ edge = edges
    /\ data = [ nodes |-> node_ids, edges |-> edge_ids ]
    /\ filtered_data = [ nodes |-> node_ids, edges |-> edge_ids ]
    /\ scaling_vars = scaling
    /\ aliased = FALSE
    /\ node_value_color_mapping = << >>
    /\ edge_value_color_mapping = << >>
    /\ sparql_query = << >>
    /\ sparql_query_history = << >>
    /\ counter_query_history = 0
    /\ query_history_length = SliderInit
    /\ displayed = [ nodes |-> << >>, edges |-> << >> ]
    /\ input_id = "none"
    /\ outcome = [ kind |-> "none" ]
    /\ graph_data = [ nodes |-> << >>, edges |-> << >> ]
    /\ flat_res_list_children = << >>
    /\ sparql_query_history_children = << >>
    /\ raised = "none"
    /\ is_open = [ p \in Panels |-> FALSE ]
    /\ clicked = "none"
    /\ selection = [ nodes |-> << >>, edges |-> << >> ]
    /\ on_select = FALSE
    /\ options = [ color_nodes |-> << >>, color_edges |-> << >> ]

\* Jaal.__init__ on the graph A, B, C
Init == Loaded(InitialNodes, InitialEdges, NodeIds, EdgeIds, InitialScalingVars)

\* Jaal.__init__ on the ontology whose weights are all equal; the bounds of the
\* scaling table are Python numbers or numpy scalars
InitFlat ==
    \E numpy \in BOOLEAN :
        Loaded(FlatNodes, InitialEdges, NodeIds, EdgeIds,
               ScalingVarsOf(FlatNodes, NodeIds, numpy))

\* Jaal.__init__ on the ontology with more technical areas than palette colours
InitMany ==
    Loaded(ManyNodes, ManyEdges, ManyNodeIds, ManyEdgeIds,
           ScalingVarsOf(ManyNodes, ManyNodeIds, FALSE))


\* ------------------------------------------------------ layout.py helpers
\* KELLY_COLORS_HEX[:n] (for_nodes) or KELLY_COLORS_HEX[2:(n+2)]
get_distinct_colors(n, for_nodes) ==
    IF for_nodes
    THEN SubSeq(KELLY_COLORS_HEX, 1, Min(n, Len(KELLY_COLORS_HEX)))
    ELSE SubSeq(KELLY_COLORS_HEX, 3, Min(n + 2, Len(KELLY_COLORS_HEX)))

RECURSIVE Unique(_)
\* pd.Series.unique(): the distinct values in order of first appearance
Unique(s) ==
    IF s = << >> THEN << >>
    ELSE LET init == Unique(SubSeq(s, 1, Len(s) - 1))
             last == s[Len(s)]
         IN  IF \E i \in 1..Len(init) : init[i] = last THEN init ELSE Append(init, last)

\* the column col of the records recs
Column(recs, col) == [i \in 1..Len(recs) |-> recs[i][col]]

\* list.remove(x): drop the first occurrence of x (the caller checks it is there)
Remove(s, x) ==
    LET i == CHOOSE k \in 1..Len(s) : s[k] = x /\ \A j \in 1..(k - 1) : s[j] # x
    IN  SubSeq(s, 1, i - 1) \o SubSeq(s, i + 1, Len(s))

InSeq(s, x) == \E i \in 1..Len(s) : s[i] = x

RECURSIVE RemoveBlacklist(_, _)
\* for col in blacklist: features.remove(col), left at the first ValueError
RemoveBlacklist(features, blacklist) ==
    IF blacklist = << >> THEN features
    ELSE IF ~InSeq(features, Head(blacklist)) THEN features
    ELSE RemoveBlacklist(Remove(features, Head(blacklist)), Tail(blacklist))

get_categorical_features(recs, columns, unique_limit, blacklist_features) ==
    LET cats == SelectSeq(columns, LAMBDA c :
                    c \in ObjectColumns /\ Len(Unique(Column(recs, c))) <= unique_limit)
    IN  RemoveBlacklist(<< "None" >> \o cats, blacklist_features)

get_numerical_features(columns) ==
    LET nums == << "None" >> \o SelectSeq(columns, LAMBDA c : c \notin ObjectColumns)
        n1 == IF InSeq(nums, "size") THEN Remove(nums, "size") ELSE nums
    IN  IF InSeq(n1, "width") THEN Remove(n1, "width") ELSE n1

\* --------------------------------------------------- the session, as a value
\* The callbacks below are functions from the session S (the fields of self
\* and the locals of the running callback) to the session they leave.
Session ==
    [ node |-> node, edge |-> edge, data |-> data, filtered_data |-> filtered_data,
      aliased |-> aliased,
      node_value_color_mapping |-> node_value_color_mapping,
      edge_value_color_mapping |-> edge_value_color_mapping,
      sparql_query |-> sparql_query,
      sparql_query_history |-> sparql_query_history,
      counter_query_history |-> counter_query_history,
      graph_data |-> displayed,
      flat_res_list_children |-> << >>,
      sparql_query_history_children |-> << >>,
      legend_assigned |-> FALSE,
      raised |-> "none",
      scaling_vars |-> scaling_vars ]

GraphIn(S, d) == GraphOf(d, S.node, S.edge)

\* self.filtered_data[key] = lst; the same dict as self.data while aliased
SetFiltered(S, key, lst) ==
    [ S EXCEPT !.filtered_data = [ @ EXCEPT ![key] = lst ],
               !.data = IF S.aliased THEN [ @ EXCEPT ![key] = lst ] ELSE @ ]

\* graph_data = self.filtered_data
ShowFiltered(F) == [ F EXCEPT !.graph_data = GraphIn(F, F.filtered_data) ]

\* ------------------------------------------------------ the query filter
\* flat_res_list = [x for l in res_list for x in l]
FlatResList(rows) == Concat(rows)

\* str(flat_res.name) + "\n", or str(flat_res) + "\n" on AttributeError
TermLine(t) == IF HasName(t) THEN << t.name, "\n" >> ELSE IntToStr(t.value) \o << "\n" >>

ResultText(flat) == Concat([i \in 1..Len(flat) |-> TermLine(flat[i])])

\* mutant: a node is kept only if the first bound term names it
MatchingNodes_first(nodes, flat) ==
    SelectSeq(nodes, LAMBDA x : Len(flat) > 0 /\ HasName(flat[1]) /\ x = flat[1].name)

\* for node in nodes: for flat_res in flat: if node['id'] == flat_res.name: res.append(node)
MatchingNodes(nodes, flat) ==
    Concat([i \in 1..Len(nodes) |->
        Concat([j \in 1..Len(flat) |->
            IF HasName(flat[j]) /\ nodes[i] = flat[j].name
            THEN << nodes[i] >> ELSE << >>])])

HistoryEntry(counter, query) == IntToStr(counter) \o << ":", " " >> \o query \o << "\n" >>

\* mutant: one message for both errors
ErrorMessage_same(kind) == NO_QUERY_MSG

\* the text an except clause of _callback_filter_nodes puts in result
ErrorMessage(kind) ==
    IF kind = "ParsingError" THEN NO_QUERY_MSG ELSE INVALID_QUERY_MSG

\* mutant: only the first bound term decides
ResIsNoDataObject_first(flat) == Len(flat) > 0 /\ ~HasName(flat[1])

\* res_is_no_data_object after the loop over flat_res_list
ResIsNoDataObject(flat) == \E i \in 1..Len(flat) : ~HasName(flat[i])

\* mutant: the entry is numbered with the counter before its increment
RecordQuery_stale(S) ==
    [ S EXCEPT !.counter_query_history = @ + 1,
               !.sparql_query_history =
                   @ \o HistoryEntry(S.counter_query_history, S.sparql_query) ]

\* self.counter_query_history = self.counter_query_history + 1
\* self.sparql_query_history = self.sparql_query_history + str(counter) + ": " + query + '\n'
RecordQuery(S) ==
    LET counter == S.counter_query_history + 1
    IN  [ S EXCEPT !.counter_query_history = counter,
                   !.sparql_query_history = @ \o HistoryEntry(counter, S.sparql_query) ]

\* mutant: the query is recorded before the engine has accepted it
FilterFailed_recorded(S, kind) ==
    RecordQuery([ S EXCEPT !.graph_data = GraphIn(S, S.data),
                           !.flat_res_list_children = ErrorMessage(kind) ])

\* except owlready2.rply.ParsingError / LexingError: graph_data = self.data
FilterFailed(S, kind) ==
    [ S EXCEPT !.graph_data = GraphIn(S, S.data),
               !.flat_res_list_children = ErrorMessage(kind) ]

\* the try block of _callback_filter_nodes when the engine yields rows
FilterFlat(S, flat_res_list) ==
    RecordQuery([ (IF ResIsNoDataObject(flat_res_list)
                   THEN [ S EXCEPT !.graph_data = GraphIn(S, S.data) ]
                   ELSE ShowFiltered(SetFiltered(S, "nodes",
                            MatchingNodes(S.filtered_data.nodes, flat_res_list))))
                  EXCEPT !.flat_res_list_children = ResultText(flat_res_list) ])

FilterRows(S, rows) == FilterFlat(S, FlatResList(rows))

\* mutant: self.filtered_data = self.data, without the copy
CopyData_same(S) == [ S EXCEPT !.filtered_data = S.data, !.aliased = TRUE ]

\* self.filtered_data = self.data.copy()
CopyData(S) == [ S EXCEPT !.filtered_data = S.data, !.aliased = FALSE ]

\* the try statement of _callback_filter_nodes, on what the engine did (out)
FilterOutcome(S, out) ==
    IF out.kind \in { "ParsingError", "LexingError" }
    THEN FilterFailed(S, out.kind)
    ELSE FilterRows(S, out.rows)

\* mutant: a failure falls back to the view of the last successful filter
callback_filter_nodes_keeps_view(S) ==
    IF Sparql(S.sparql_query).kind \in { "ParsingError", "LexingError" }
    THEN [ S EXCEPT !.graph_data = GraphIn(S, S.filtered_data),
                    !.flat_res_list_children = ErrorMessage(Sparql(S.sparql_query).kind) ]
    ELSE FilterOutcome(CopyData(S), Sparql(S.sparql_query))

\* mutant: the nodes are looked for in the view the last filter left
callback_filter_nodes_narrows(S) == FilterOutcome(S, Sparql(S.sparql_query))

\* Jaal._callback_filter_nodes
callback_filter_nodes(S) == FilterOutcome(CopyData(S), Sparql(S.sparql_query))

\* Jaal._callback_sparql_query_history
callback_sparql_query_history(history, counter, number_of_shown_queries) ==
    IF counter > number_of_shown_queries
    THEN LET separator == IntToStr(counter - (number_of_shown_queries - 1)) \o << ":", " " >>
             part == partition(history, separator)
         IN  part[2] \o part[3]
    ELSE history


\* ------------------------------------------------ attribute-driven styling
\* mutant: every value is given the first colour
ValueColorMapping_one(unique_values, colors) ==
    [ v \in { unique_values[i] : i \in 1..Min(Len(unique_values), Len(colors)) } |->
        colors[1] ]

\* {x: y for x, y in zip(unique_values, colors)}
ValueColorMapping(unique_values, colors) ==
    [ v \in { unique_values[i] : i \in 1..Min(Len(unique_values), Len(colors)) } |->
        colors[CHOOSE i \in 1..Len(unique_values) : unique_values[i] = v] ]

\* for x in ids: recs[x][field] = val[x], left at the first x for which
\* fails[x] (the statement raises there); the result is the pair
\* << records, TRUE iff a statement raised >>
AssignEach(recs, ids, field, val, fails) ==
    LET bad == { i \in 1..Len(ids) : fails[ids[i]] }
        stop == IF bad = {} THEN Len(ids) + 1
                ELSE CHOOSE k \in bad : \A j \in bad : k <= j
        done == { ids[i] : i \in 1..(stop - 1) }
    IN  << [ x \in DOMAIN recs |->
               IF x \in done THEN [ recs[x] EXCEPT ![field] = val[x] ] ELSE recs[x] ],
           bad # {} >>

\* mutant: the view is rebuilt as the whole of self.data[key]
Refilter_all(S, key) == ShowFiltered(SetFiltered(S, key, S.data[key]))

\* filtered = [x['id'] for x in self.filtered_data[key]]
\* self.filtered_data[key] = [x for x in self.data[key] if x['id'] in filtered]
\* graph_data = self.filtered_data
Refilter(S, key) ==
    ShowFiltered(SetFiltered(S, key,
        SelectSeq(S.data[key], LAMBDA x : InSeq(S.filtered_data[key], x))))

\* the values of column attr over the records ids, in order
ValuesOf(recs, ids, attr) == [i \in 1..Len(ids) |-> recs[ids[i]][attr]]

\* colors = get_distinct_colors(len(unique_values)); the mapping of the two
MappingOf(unique_values) ==
    ValueColorMapping(unique_values, get_distinct_colors(Len(unique_values), TRUE))

\* the loop of a colour callback over the records: x['color'] = mapping[x[attr]]
ColorEach(recs, ids, attr, mapping) ==
    AssignEach(recs, ids, "color",
               [x \in DOMAIN recs |-> mapping[recs[x][attr]]],
               [x \in DOMAIN recs |-> recs[x][attr] \notin DOMAIN mapping])

\* the rest of _callback_color_nodes once the loop left r
NodesColored(S, r, mapping) ==
    IF r[2]
    THEN << [ S EXCEPT !.node = r[1], !.raised = "KeyError" ], mapping >>
    ELSE << Refilter([ S EXCEPT !.node = r[1] ], "nodes"), mapping >>

\* the non-default branch of _callback_color_nodes
NodesColoredBy(S, attr, mapping) ==
    NodesColored(S, ColorEach(S.node, S.data.nodes, attr, mapping), mapping)

\* mutant: 'None' returns the empty mapping and leaves the colours
callback_color_nodes_keeps(S, color_nodes_value) ==
    IF color_nodes_value = "None"
    THEN << Refilter(S, "nodes"), << >> >>
    ELSE NodesColoredBy(S, color_nodes_value,
                        MappingOf(Unique(ValuesOf(S.node, S.data.nodes, color_nodes_value))))

\* Jaal._callback_color_nodes; the pair << session, value_color_mapping >>
callback_color_nodes(S, color_nodes_value) ==
    IF color_nodes_value = "None"
    THEN NodesColored(S, AssignEach(S.node, S.data.nodes, "color",
                                    [x \in DOMAIN S.node |-> DEFAULT_COLOR], [x \in DOMAIN S.node |-> FALSE]), << >>)
    ELSE NodesColoredBy(S, color_nodes_value,
                        MappingOf(Unique(ValuesOf(S.node, S.data.nodes, color_nodes_value))))

\* the rest of _callback_color_edges once the loop left r
EdgesColored(S, r, mapping) ==
    IF r[2]
    THEN << [ S EXCEPT !.edge = r[1], !.raised = "KeyError" ], mapping >>
    ELSE << Refilter([ S EXCEPT !.edge = r[1] ], "edges"), mapping >>

\* the non-default branch of _callback_color_edges
EdgesColoredBy(S, attr, mapping) ==
    EdgesColored(S, ColorEach(S.edge, S.data.edges, attr, mapping), mapping)

\* Jaal._callback_color_edges; the pair << session, value_color_mapping >>
callback_color_edges(S, color_edges_value) ==
    IF color_edges_value = "None"
    THEN EdgesColored(S, AssignEach(S.edge, S.data.edges, "color",
                                    [x \in DOMAIN S.edge |-> DEFAULT_COLOR], [x \in DOMAIN S.edge |-> FALSE]), << >>)
    ELSE EdgesColoredBy(S, color_edges_value,
                        MappingOf(Unique(ValuesOf(S.edge, S.data.edges, color_edges_value))))

\* scale_val = lambda x: 20*(x-minn)/(maxx-minn); the data sets of the model
\* keep the quotient whole
scale_val(x, minn, maxx) == (20 * (x - minn)) \div (maxx - minn)

\* the rest of _callback_size_nodes once the loop left r
NodesSized(S, r) ==
    IF r[2]
    THEN [ S EXCEPT !.node = r[1], !.raised = "ZeroDivisionError" ]
    ELSE Refilter([ S EXCEPT !.node = r[1] ], "nodes")

\* a + b on floats
Plus(a, b) == IF a = NaN \/ b = NaN THEN NaN ELSE a + b

\* the loop of _callback_size_nodes: node['size'] = node['size'] + scale_val(node[attr]);
\* when maxx = minn (every value is minn) the quotient 0/0 raises
\* ZeroDivisionError on Python numbers and is nan on numpy scalars
ScaleEach(S, attr, minn, maxx, numpy) ==
    AssignEach(S.node, S.data.nodes, "size",
               [x \in DOMAIN S.node |->
                   IF maxx = minn THEN NaN
                   ELSE Plus(S.node[x].size, scale_val(S.node[x][attr], minn, maxx))],
               [x \in DOMAIN S.node |-> maxx = minn /\ ~numpy])

\* Jaal._callback_size_nodes
callback_size_nodes(S, size_nodes_value) ==
    IF size_nodes_value = "None"
    THEN NodesSized(S, AssignEach(S.node, S.data.nodes, "size",
                                  [x \in DOMAIN S.node |-> DEFAULT_NODE_SIZE], [x \in DOMAIN S.node |-> FALSE]))
    ELSE IF size_nodes_value \notin DOMAIN S.scaling_vars.node
    THEN [ S EXCEPT !.raised = "KeyError" ]
    ELSE NodesSized(S, ScaleEach(S, size_nodes_value,
                                 S.scaling_vars.node[size_nodes_value].min,
                                 S.scaling_vars.node[size_nodes_value].max,
                                 S.scaling_vars.numpy))

\* the rest of _callback_size_edges once the loop left r
EdgesSized(S, r) == Refilter([ S EXCEPT !.edge = r[1] ], "edges")

\* mutant: 'None' is taken for a column whose values are the current widths
callback_size_edges_keeps(S, size_edges_value) ==
    EdgesSized(S, AssignEach(S.edge, S.data.edges, "width",
                  [x \in DOMAIN S.edge |->
                      IF size_edges_value = "None" THEN S.edge[x].width
                      ELSE S.edge[x][size_edges_value]],
                  [x \in DOMAIN S.edge |-> FALSE]))

\* Jaal._callback_size_edges
callback_size_edges(S, size_edges_value) ==
    EdgesSized(S, AssignEach(S.edge, S.data.edges, "width",
                  [x \in DOMAIN S.edge |->
                      IF size_edges_value = "None" THEN DEFAULT_EDGE_SIZE
                      ELSE S.edge[x][size_edges_value]],
                  [x \in DOMAIN S.edge |-> FALSE]))


\* ---------------------------------------------------------- search filter
LowerSym(c) ==
    CASE c = "A" -> "a" [] c = "B" -> "b" [] c = "C" -> "c" [] c = "K" -> "k"
      [] c = "KNOWS" -> "knows"
      [] OTHER -> c
\* str.lower()
Lower(s) == [i \in 1..Len(s) |-> LowerSym(s[i])]

\* mutant: the hidden nodes are dropped from the list
callback_search_graph_drops(g, search_text) ==
    [ g EXCEPT !.nodes = SelectSeq(g.nodes, LAMBDA n : Contains(Lower(n.label), search_text)) ]

\* _callback_search_graph, on the graph the browser sent
callback_search_graph(g, search_text) ==
    LET matching == { i \in 1..Len(g.edges) : Contains(Lower(g.edges[i].label), search_text) }
        shown(n) == \E i \in matching :
                        \/ Lower(<< g.edges[i].from >>) = Lower(n.label)
                        \/ Lower(<< g.edges[i].to >>) = Lower(n.label)
    IN  [ g EXCEPT !.nodes = [i \in 1..Len(g.nodes) |->
            [ g.nodes[i] EXCEPT !.hidden =
                IF shown(g.nodes[i]) THEN FALSE
                ELSE ~Contains(Lower(g.nodes[i].label), search_text) ] ] ]

\* ------------------------------------------------- the settings callback
\* the values the inputs of setting_pane_callback can carry
SearchTexts == { << "a" >>, << "A" >>, << "knows" >>, << "KNOWS" >> }
\* n_clicks of a button that was clicked
ClickCounts == { 1 }
\* the slider positions the user moves between (of SliderMin..SliderMax)
SliderValues == { 1, 2, SliderInit }
\* the names get_app_layout passes as blacklist_features
NodeBlacklist == << "shape", "label", "id", "title", "color" >>
EdgeBlacklist == << "color", "from", "to", "id" >>

\* cat_node_features and cat_edge_features of get_app_layout(graph_data, ...)
LayoutOptions(g) ==
    [ color_nodes |-> get_categorical_features(g.nodes, NodeColumns, UniqueLimit,
                                               NodeBlacklist),
      color_edges |-> get_categorical_features(g.edges,
                          SelectSeq(EdgeColumns, LAMBDA c :
                              c \notin { "color", "from", "to", "id", "arrows" }),
                          UniqueLimit, EdgeBlacklist) ]

\* the options of the dropdowns, as get_app_layout computes them from self.data
ColorNodesOptions ==
    get_categorical_features(GraphOf([nodes |-> NodeIds, edges |-> EdgeIds],
                                     InitialNodes, InitialEdges).nodes,
                             NodeColumns, UniqueLimit,
                             << "shape", "label", "id", "title", "color" >>)
ColorEdgesOptions ==
    get_categorical_features(GraphOf([nodes |-> NodeIds, edges |-> EdgeIds],
                                     InitialNodes, InitialEdges).edges,
                             SelectSeq(EdgeColumns, LAMBDA c :
                                 c \notin { "color", "from", "to", "id", "arrows" }),
                             UniqueLimit, << "color", "from", "to", "id" >>)
SizeNodesOptions == get_numerical_features(NodeColumns)
SizeEdgesOptions == get_numerical_features(EdgeColumns)
Range(s) == { s[i] : i \in 1..Len(s) }

\* sparql_query_history_children = self._callback_sparql_query_history(history_length)
WithHistoryView(S, history_length) ==
    [ S EXCEPT !.sparql_query_history_children =
        callback_sparql_query_history(S.sparql_query_history,
                                      S.counter_query_history, history_length) ]

\* mutant: the counter is reset, the buffer is not
ClearHistory_counter_only(S, history_length) ==
    WithHistoryView([ S EXCEPT !.counter_query_history = 0 ], history_length)

\* self.counter_query_history = 0; self.sparql_query_history = ""; the view is recomputed
ClearHistory(S, history_length) ==
    WithHistoryView([ S EXCEPT !.counter_query_history = 0,
                               !.sparql_query_history = << >> ], history_length)

\* if input_id == "search_graph" ... / if (evaluate_query_button and n_evaluate)
\* or query-history-length-slider ...
FilterBranch(S, ev, history_length) ==
    IF ev.id = "search_graph"
    THEN [ S EXCEPT !.graph_data = callback_search_graph(S.graph_data, ev.value) ]
    ELSE IF (ev.id = "evaluate_query_button" /\ ev.n # 0)
            \/ ev.id = "query-history-length-slider"
    THEN WithHistoryView(callback_filter_nodes(S), history_length)
    ELSE S

\* if input_id == 'clear-query-history-button' and n_clear
ClearBranch(S, ev, history_length) ==
    IF ev.id = "clear-query-history-button" /\ ev.n # 0
    THEN ClearHistory(S, history_length)
    ELSE S

\* graph_data, self.node_value_color_mapping = self._callback_color_nodes(...);
\* the legend children are created from it
NodeLegend(r) ==
    IF r[1].raised # "none" THEN r[1]
    ELSE [ r[1] EXCEPT !.node_value_color_mapping = r[2], !.legend_assigned = TRUE ]

\* if input_id == 'color_nodes' or (input_id == 'color-legend-toggle' and n_clicks)
ColorNodesBranch(S, ev) ==
    IF ev.id = "color_nodes"
    THEN NodeLegend(callback_color_nodes(S, ev.value))
    ELSE IF ev.id = "color-legend-toggle" /\ ev.n # 0
    THEN [ S EXCEPT !.legend_assigned = TRUE ]
    ELSE S

\* graph_data, self.edge_value_color_mapping = self._callback_color_edges(...)
EdgeLegend(r) ==
    IF r[1].raised # "none" THEN r[1]
    ELSE [ r[1] EXCEPT !.edge_value_color_mapping = r[2], !.legend_assigned = TRUE ]

\* if input_id == 'color_edges' or (input_id == 'color-legend-toggle' and n_clicks)
ColorEdgesBranch(S, ev) ==
    IF S.raised # "none" THEN S
    ELSE IF ev.id = "color_edges"
    THEN EdgeLegend(callback_color_edges(S, ev.value))
    ELSE IF ev.id = "color-legend-toggle" /\ ev.n # 0
    THEN [ S EXCEPT !.legend_assigned = TRUE ]
    ELSE S

\* if input_id == 'size_nodes'
SizeNodesBranch(S, ev) ==
    IF S.raised = "none" /\ ev.id = "size_nodes"
    THEN callback_size_nodes(S, ev.value)
    ELSE S

\* if input_id == 'size_edges'
SizeEdgesBranch(S, ev) ==
    IF S.raised = "none" /\ ev.id = "size_edges"
    THEN callback_size_edges(S, ev.value)
    ELSE S

\* return [graph_data, color_popover_legend_children, ...]: the second name
\* is bound only by the colour branches
ReturnOutputs(S) ==
    IF S.raised = "none" /\ ~S.legend_assigned
    THEN [ S EXCEPT !.raised = "UnboundLocalError" ]
    ELSE S

\* setting_pane_callback, triggered by input ev.id carrying ev.value (and the
\* click count ev.n for a button)
setting_pane_handler(S, ev, history_length) ==
    ReturnOutputs(
      SizeEdgesBranch(
        SizeNodesBranch(
          ColorEdgesBranch(
            ColorNodesBranch(
              ClearBranch(
                FilterBranch(S, ev, history_length),
                ev, history_length),
              ev),
            ev),
          ev),
        ev))

NoCall == [ kind |-> "none" ]
Event(id, value, n) == [ id |-> id, value |-> value, n |-> n ]
\* the inputs whose branch of setting_pane_callback calls _callback_filter_nodes
CallsEngine(ev) ==
    \/ ev.id = "evaluate_query_button" /\ ev.n # 0
    \/ ev.id = "query-history-length-slider"

\* the callback runs, leaves the session R, and Dash updates the outputs
\* unless the callback raised
Returned(R, ev, history_length) ==
        /\ pc = "running"
        /\ R.counter_query_history <= MaxHistory
        /\ node' = R.node
        /\ edge' = R.edge
        /\ data' = R.data
        /\ filtered_data' = R.filtered_data
        /\ aliased' = R.aliased
        /\ node_value_color_mapping' = R.node_value_color_mapping
        /\ edge_value_color_mapping' = R.edge_value_color_mapping
        /\ sparql_query_history' = R.sparql_query_history
        /\ counter_query_history' = R.counter_query_history
        /\ query_history_length' = history_length
        /\ input_id' = ev.id
        /\ outcome' = IF CallsEngine(ev) THEN Sparql(sparql_query) ELSE NoCall
        /\ graph_data' = R.graph_data
        /\ flat_res_list_children' = R.flat_res_list_children
        /\ sparql_query_history_children' = R.sparql_query_history_children
        /\ raised' = R.raised
        /\ displayed' = IF R.raised = "none" THEN R.graph_data ELSE displayed
        /\ UNCHANGED << pc, sparql_query, scaling_vars, is_open, clicked, selecting,
                        options >>

Dispatch(ev, history_length) ==
    Returned(setting_pane_handler(Session, ev, history_length), ev, history_length)

search_graph ==
    \E t \in SearchTexts :
        Dispatch(Event("search_graph", t, 0), query_history_length)

color_nodes ==
    \E v \in Range(ColorNodesOptions) :
        Dispatch(Event("color_nodes", v, 0), query_history_length)

color_edges ==
    \E v \in Range(ColorEdgesOptions) :
        Dispatch(Event("color_edges", v, 0), query_history_length)

size_nodes ==
    \E v \in Range(SizeNodesOptions) :
        /\ v # "None" => \A x \in DOMAIN node : node[x].size < MaxNodeSize
        /\ Dispatch(Event("size_nodes", v, 0), query_history_length)

size_edges ==
    \E v \in Range(SizeEdgesOptions) :
        Dispatch(Event("size_edges", v, 0), query_history_length)

evaluate_query_button ==
    \E n \in ClickCounts :
        Dispatch(Event("evaluate_query_button", 0, n), query_history_length)

clear_query_history_button ==
    \E n \in ClickCounts :
        Dispatch(Event("clear-query-history-button", 0, n), query_history_length)

query_history_length_slider ==
    \E v \in SliderValues \ { query_history_length } :
        Dispatch(Event("query-history-length-slider", v, 0), v)

color_legend_toggle ==
    \E n \in ClickCounts :
        Dispatch(Event("color-legend-toggle", 0, n), query_history_length)


\* --------------------------------------------------------------- start-up
\* self.data = <what a styling callback returned>: self.data becomes the
\* dict self.filtered_data
AdoptFiltered(S) == [ S EXCEPT !.data = S.filtered_data, !.aliased = TRUE ]

\* graph_data, self.node_value_color_mapping = self._callback_color_nodes(...)
\* self.data = graph_data
AdoptNodeColors(r) == [ AdoptFiltered(r[1]) EXCEPT !.node_value_color_mapping = r[2] ]

\* if len(cat_node_features) > 1: colour the nodes by the second option
StartColorNodes(S, cat_node_features) ==
    IF Len(cat_node_features) > 1
    THEN AdoptNodeColors(callback_color_nodes(S, cat_node_features[2]))
    ELSE S

\* graph_data, self.edge_value_color_mapping = self._callback_color_edges(...)
\* self.data = graph_data
AdoptEdgeColors(r) == [ AdoptFiltered(r[1]) EXCEPT !.edge_value_color_mapping = r[2] ]

\* if len(cat_edge_features) > 1: colour the edges by the second option
StartColorEdges(S, cat_edge_features) ==
    IF Len(cat_edge_features) > 1
    THEN AdoptEdgeColors(callback_color_edges(S, cat_edge_features[2]))
    ELSE S

\* self.data = self._callback_size_...(...), unless the callback raised
AdoptUnlessRaised(S) == IF S.raised = "none" THEN AdoptFiltered(S) ELSE S

\* if len(num_node_features) > 1: size the nodes by the second option
StartSizeNodes(S, num_node_features) ==
    IF S.raised = "none" /\ Len(num_node_features) > 1
    THEN AdoptUnlessRaised(callback_size_nodes(S, num_node_features[2]))
    ELSE S

\* if len(num_edge_features) > 1: size the edges by the second option
StartSizeEdges(S, num_edge_features) ==
    IF S.raised = "none" /\ Len(num_edge_features) > 1
    THEN AdoptUnlessRaised(callback_size_edges(S, num_edge_features[2]))
    ELSE S

\* the options forced_callback_execution_at_beginning reads off self.data
CatNodeFeatures(S) ==
    get_categorical_features(GraphIn(S, S.data).nodes, NodeColumns, UniqueLimit,
                             << "shape", "label", "id" >>)
CatEdgeFeatures(S) ==
    get_categorical_features(GraphIn(S, S.data).edges,
        SelectSeq(EdgeColumns, LAMBDA c : c \notin { "color", "from", "to", "id" }),
        UniqueLimit, << "color", "from", "to", "id" >>)

\* the node half of forced_callback_execution_at_beginning's colouring
StartNodes(S) == StartColorNodes(S, CatNodeFeatures(S))
\* the edge half
StartEdges(S) == StartColorEdges(S, CatEdgeFeatures(S))

\* Jaal.forced_callback_execution_at_beginning
forced_callback_execution_at_beginning(S) ==
    StartSizeEdges(
      StartSizeNodes(StartEdges(StartNodes(S)), get_numerical_features(NodeColumns)),
      get_numerical_features(EdgeColumns))

\* the state create leaves when forced_callback_execution_at_beginning left R:
\* the page is served, or create has raised what the start-up styling raised
Started(R) ==
    /\ node' = R.node
    /\ edge' = R.edge
    /\ data' = R.data
    /\ filtered_data' = R.filtered_data
    /\ aliased' = R.aliased
    /\ node_value_color_mapping' = R.node_value_color_mapping
    /\ edge_value_color_mapping' = R.edge_value_color_mapping
    /\ raised' = R.raised
    /\ pc' = IF R.raised = "none" THEN "running" ELSE "failed"
    /\ displayed' = IF R.raised = "none" THEN GraphIn(R, R.data) ELSE displayed
    /\ graph_data' = IF R.raised = "none" THEN GraphIn(R, R.data) ELSE graph_data
    /\ options' = IF R.raised = "none" THEN LayoutOptions(Graph(data)) ELSE options

\* Jaal.create: the layout is built from self.data, the start-up styling runs,
\* the callbacks are registered; then the page loads and Dash calls
\* setting_pane_callback with nothing triggered, which returns self.data
create ==
    /\ pc = "constructed"
    /\ Started(forced_callback_execution_at_beginning(
                   [ Session EXCEPT !.graph_data = Graph(data) ]))
    /\ UNCHANGED << sparql_query, sparql_query_history, counter_query_history,
                    query_history_length, input_id, outcome, flat_res_list_children,
                    sparql_query_history_children, scaling_vars, is_open, clicked,
                    selecting >>

\* ------------------------------------------------------ the query buffer
Keywords == { "PREFIX", "SELECT", "WHERE" }
Variables == { "?x" }
Syntax == { "{" }
ONTO_IRI == "iri"

\* mutant: a selected edge is referred to by its id
Fragment_edge_id(ev) ==
    IF ev.id = "sparql-keywords-dropdown"
    THEN IF ev.value = "PREFIX"
         THEN << " ", "PREFIX", " ", ":", " ", "<", ONTO_IRI, "#", ">" >>
         ELSE IF ev.value = "SELECT" THEN << " ", "SELECT" >>
         ELSE << " ", ev.value >>
    ELSE IF ev.id \in { "sparql-variables-dropdown", "sparql-syntax-dropdown" }
    THEN << " ", ev.value >>
    ELSE IF ev.id = "add_to_query_button"
    THEN IF ev.n # 0 THEN << " " >> \o ev.value ELSE << >>
    ELSE IF ev.id = "graph" /\ ev.on_select
    THEN IF Len(ev.value.nodes) > 0
         THEN Concat([i \in 1..Len(data.nodes) |->
                 IF << data.nodes[i] >> = ev.value.nodes
                 THEN << " ", ":", data.nodes[i] >> ELSE << >>])
         ELSE IF Len(ev.value.edges) > 0
         THEN Concat([i \in 1..Len(data.edges) |->
                 IF << data.edges[i] >> = ev.value.edges
                 THEN << " ", ":", data.edges[i] >> ELSE << >>])
         ELSE << >>
    ELSE << >>

\* the fragment edit_sparql_query appends for an input, << >> if it appends nothing
Fragment(ev) ==
    IF ev.id = "sparql-keywords-dropdown"
    THEN IF ev.value = "PREFIX"
         THEN << " ", "PREFIX", " ", ":", " ", "<", ONTO_IRI, "#", ">" >>
         ELSE IF ev.value = "SELECT" THEN << " ", "SELECT" >>
         ELSE << " ", ev.value >>
    ELSE IF ev.id \in { "sparql-variables-dropdown", "sparql-syntax-dropdown" }
    THEN << " ", ev.value >>
    ELSE IF ev.id = "add_to_query_button"
    THEN IF ev.n # 0 THEN << " " >> \o ev.value ELSE << >>
    ELSE IF ev.id = "graph" /\ ev.on_select
    THEN IF Len(ev.value.nodes) > 0
         THEN Concat([i \in 1..Len(data.nodes) |->
                 IF << data.nodes[i] >> = ev.value.nodes
                 THEN << " ", ":", data.nodes[i] >> ELSE << >>])
         ELSE IF Len(ev.value.edges) > 0
         THEN Concat([i \in 1..Len(data.edges) |->
                 IF << data.edges[i] >> = ev.value.edges
                 THEN << " ", ":" >> \o edge[data.edges[i]].label ELSE << >>])
         ELSE << >>
    ELSE << >>

\* mutant: a fragment replaces the buffer
edit_sparql_query_replaces(ev) ==
    /\ pc = "running"
    /\ sparql_query' = IF ev.id = "delete_query_button"
                       THEN IF ev.n # 0 THEN << >> ELSE sparql_query
                       ELSE IF Fragment(ev) = << >> THEN sparql_query ELSE Fragment(ev)
    /\ Len(sparql_query') <= MaxQueryLen
    /\ selection' = IF ev.id = "graph" THEN ev.value ELSE selection
    /\ on_select' = ev.on_select
    /\ UNCHANGED << pc, node, edge, data, filtered_data, aliased,
                    node_value_color_mapping, edge_value_color_mapping,
                    sparql_query_history, counter_query_history, query_history_length,
                    displayed, input_id, outcome, graph_data, flat_res_list_children,
                    sparql_query_history_children, raised, scaling_vars, is_open,
                    clicked, options >>

\* edit_sparql_query, called for input ev.id; the graph and the switch hand
\* their new values in
edit_sparql_query(ev) ==
    /\ pc = "running"
    /\ sparql_query' = IF ev.id = "delete_query_button"
                       THEN IF ev.n # 0 THEN << >> ELSE sparql_query
                       ELSE sparql_query \o Fragment(ev)
    /\ Len(sparql_query') <= MaxQueryLen
    /\ selection' = IF ev.id = "graph" THEN ev.value ELSE selection
    /\ on_select' = ev.on_select
    /\ UNCHANGED << pc, node, edge, data, filtered_data, aliased,
                    node_value_color_mapping, edge_value_color_mapping,
                    sparql_query_history, counter_query_history, query_history_length,
                    displayed, input_id, outcome, graph_data, flat_res_list_children,
                    sparql_query_history_children, raised, scaling_vars, is_open,
                    clicked, options >>

EditEvent(id, value, n, on) == [ id |-> id, value |-> value, n |-> n, on_select |-> on ]

sparql_keywords_dropdown ==
    \E v \in Keywords : edit_sparql_query(EditEvent("sparql-keywords-dropdown", v, 0, on_select))

sparql_variables_dropdown ==
    \E v \in Variables : edit_sparql_query(EditEvent("sparql-variables-dropdown", v, 0, on_select))

sparql_syntax_dropdown ==
    \E v \in Syntax : edit_sparql_query(EditEvent("sparql-syntax-dropdown", v, 0, on_select))

\* Add, with one of texts in the text area
add_to_query_button(texts) ==
    \E n \in ClickCounts, v \in texts :
        edit_sparql_query(EditEvent("add_to_query_button", v, n, on_select))

delete_query_button ==
    \E n \in ClickCounts : edit_sparql_query(EditEvent("delete_query_button", 0, n, on_select))

\* the edges the widget selects along with node x
ConnectedEdges(x) == SelectSeq(data.edges, LAMBDA e : edge[e].from = x \/ edge[e].to = x)

\* what a click on the graph makes the selection: a node, alone or with its
\* edges, or an edge
Selections ==
    UNION { { [ nodes |-> << x >>, edges |-> << >> ],
              [ nodes |-> << x >>, edges |-> ConnectedEdges(x) ] } : x \in Range(data.nodes) }
      \cup { [ nodes |-> << >>, edges |-> << x >> ] : x \in Range(data.edges) }

\* a click on a node or an edge of the graph
graph_selection ==
    \E sel \in Selections : edit_sparql_query(EditEvent("graph", sel, 0, on_select))

\* the 'Select Edge/Node' switch is flipped
add_node_edge_to_query_button ==
    edit_sparql_query(EditEvent("add_node_edge_to_query_button", 0, 0, ~on_select))

\* ------------------------------------------------- the callbacks of create
\* the inputs of setting_pane_callback and of edit_sparql_query
SettingInputs ==
    { "search_graph", "color_nodes", "color_edges", "size_nodes", "size_edges",
      "evaluate_query_button", "clear-query-history-button",
      "query-history-length-slider", "color-legend-toggle" }
EditInputs ==
    { "sparql-keywords-dropdown", "sparql-variables-dropdown", "sparql-syntax-dropdown",
      "add_to_query_button", "delete_query_button", "add_node_edge_to_query_button",
      "graph" }

\* mutant: show_selected_edge keeps the selected edge in the session
Callbacks_edge_kept ==
    { [ name |-> "edit_sparql_query", inputs |-> EditInputs, session |-> "writes" ],
      [ name |-> "show_selected_edge", inputs |-> { "graph" }, session |-> "writes" ] }

\* every @app.callback of create: the inputs Dash calls it for, and what its
\* body does with the fields of self other than the logger: nothing ("none"),
\* read them ("reads"), or assign to them ("writes")
Callbacks ==
    { [ name |-> "toggle_popover_legend", inputs |-> { "color-legend-toggle" },
        session |-> "none" ],
      [ name |-> "toggle_popover_info", inputs |-> { "info-sparql-query-button" },
        session |-> "none" ],
      [ name |-> "toggle_filter_collapse", inputs |-> { "filter-show-toggle-button" },
        session |-> "none" ],
      [ name |-> "toggle_result_collapse",
        inputs |-> { "result-show-toggle-button", "evaluate_query_button" },
        session |-> "none" ],
      [ name |-> "toggle_history_collapse", inputs |-> { "history-show-toggle-button" },
        session |-> "none" ],
      [ name |-> "edit_sparql_query", inputs |-> EditInputs, session |-> "writes" ],
      [ name |-> "toggle_color_collapse", inputs |-> { "color-show-toggle-button" },
        session |-> "none" ],
      [ name |-> "toggle_size_collapse", inputs |-> { "size-show-toggle-button" },
        session |-> "none" ],
      [ name |-> "show_selected_edge", inputs |-> { "graph" }, session |-> "reads" ],
      [ name |-> "show_dp_from_selected_node", inputs |-> { "graph" },
        session |-> "reads" ],
      [ name |-> "setting_pane_callback", inputs |-> SettingInputs,
        session |-> "writes" ] }

\* the callbacks Dash calls when input changes
Triggered(input) == { c \in Callbacks : input \in c.inputs }

\* ------------------------------------------------------ the panel toggles
\* a click on button: Dash calls the callback registered for it, which
\* returns new_value for the is_open of panel
PanelCallback(button, panel, new_value) ==
    /\ pc = "running"
    /\ clicked' = button
    /\ is_open' = [ is_open EXCEPT ![panel] = new_value ]
    /\ UNCHANGED settings

\* if n: return not is_open; return is_open
Toggled(n, open) == IF n # 0 THEN ~open ELSE open

\* toggle_popover of "color-legend-popup"
toggle_popover_legend ==
    \E n \in ClickCounts :
        PanelCallback("color-legend-toggle", "color-legend-popup",
                      Toggled(n, is_open["color-legend-popup"]))

\* toggle_popover of "info-sparql-popup"
toggle_popover_info ==
    \E n \in ClickCounts :
        PanelCallback("info-sparql-query-button", "info-sparql-popup",
                      Toggled(n, is_open["info-sparql-popup"]))

\* toggle_filter_collapse of "filter-show-toggle"
toggle_filter_collapse ==
    \E n \in ClickCounts :
        PanelCallback("filter-show-toggle-button", "filter-show-toggle",
                      Toggled(n, is_open["filter-show-toggle"]))

\* toggle_filter_collapse of "result-show-toggle", triggered by its button
toggle_result_collapse ==
    \E n_show \in ClickCounts :
        PanelCallback("result-show-toggle-button", "result-show-toggle",
                      Toggled(n_show, is_open["result-show-toggle"]))

\* toggle_filter_collapse of "result-show-toggle", triggered by the evaluate
\* button: the section is shown
show_result_on_evaluate ==
    \E n_evaluate \in ClickCounts :
        PanelCallback("evaluate_query_button", "result-show-toggle",
                      IF n_evaluate # 0 THEN TRUE ELSE is_open["result-show-toggle"])

\* toggle_filter_collapse of "history-show-toggle"
toggle_history_collapse ==
    \E n_show \in ClickCounts :
        PanelCallback("history-show-toggle-button", "history-show-toggle",
                      Toggled(n_show, is_open["history-show-toggle"]))

\* toggle_filter_collapse of "color-show-toggle"
toggle_color_collapse ==
    \E n \in ClickCounts :
        PanelCallback("color-show-toggle-button", "color-show-toggle",
                      Toggled(n, is_open["color-show-toggle"]))

\* toggle_filter_collapse of "size-show-toggle"
toggle_size_collapse ==
    \E n \in ClickCounts :
        PanelCallback("size-show-toggle-button", "size-show-toggle",
                      Toggled(n, is_open["size-show-toggle"]))

\* the buttons of the page no callback of create has as an input
UnwiredButtons ==
    { "edge-selection-show-toggle-button", "abox-dp-show-toggle-button",
      "template-show-toggle-button" }

\* a click on one of them: no callback runs
unwired_button ==
    \E b \in UnwiredButtons :
        /\ pc = "running"
        /\ clicked' = b
        /\ UNCHANGED << settings, is_open >>

\* the clicks on the buttons of the panels
panel_buttons ==
    \/ toggle_popover_legend
    \/ toggle_popover_info
    \/ toggle_filter_collapse
    \/ toggle_result_collapse
    \/ show_result_on_evaluate
    \/ toggle_history_collapse
    \/ toggle_color_collapse
    \/ toggle_size_collapse
    \/ unwired_button

Next ==
    \/ create
    \/ search_graph
    \/ color_nodes
    \/ color_edges
    \/ size_nodes
    \/ size_edges
    \/ evaluate_query_button
    \/ clear_query_history_button
    \/ query_history_length_slider
    \/ color_legend_toggle
    \/ sparql_keywords_dropdown
    \/ sparql_variables_dropdown
    \/ sparql_syntax_dropdown
    \/ add_to_query_button(TextAreaValues)
    \/ delete_query_button
    \/ graph_selection
    \/ add_node_edge_to_query_button
    \/ panel_buttons

Spec == Init /\ [][Next]_vars

\* the session of a user who uses the settings pane, with one query
NextSettings ==
    \/ create
    \/ search_graph
    \/ color_nodes
    \/ color_edges
    \/ size_nodes
    \/ size_edges
    \/ evaluate_query_button
    \/ clear_query_history_button
    \/ query_history_length_slider
    \/ color_legend_toggle
    \/ add_to_query_button({ QueryTable[1].text })
    \/ delete_query_button

SpecSettings == Init /\ [][NextSettings]_vars

\* the session of a user who types queries, evaluates them and reads the history
NextQuery ==
    \/ create
    \/ add_to_query_button(TextAreaValues)
    \/ delete_query_button
    \/ evaluate_query_button
    \/ clear_query_history_button
    \/ query_history_length_slider

SpecQuery == Init /\ [][NextQuery]_vars

\* the session of a user who searches, colours and sizes the graph
\* the color_nodes input of setting_pane_callback is whatever value the request
\* carries: any text column of the node table, offered by the dropdown or not
color_nodes_column ==
    \E v \in { c \in Range(NodeColumns) : c \in ObjectColumns } :
        Dispatch(Event("color_nodes", v, 0), query_history_length)

\* the styling inputs on the ontology with more technical areas than colours
NextMany ==
    \/ create
    \/ search_graph
    \/ color_nodes_column
    \/ color_edges
    \/ size_nodes
    \/ size_edges
    \/ color_legend_toggle

SpecMany == InitMany /\ [][NextMany]_vars

NextStyling ==
    \/ create
    \/ search_graph
    \/ color_nodes
    \/ color_edges
    \/ size_nodes
    \/ size_edges
    \/ color_legend_toggle

SpecStyling == Init /\ [][NextStyling]_vars

\* the styling inputs on the ontology whose weights are all equal
SpecFlat == InitFlat /\ [][NextStyling]_vars


\* the queries of a user who narrows the view: to node A, or to node C, which
\* the result binds twice in one row
ViewQueries == { QueryTable[1].text, QueryTable[3].text }

\* the session of a user who narrows the view by a query and restyles the graph
NextView ==
    \/ create
    \/ add_to_query_button(ViewQueries)
    \/ delete_query_button
    \/ evaluate_query_button
    \/ color_nodes
    \/ color_edges
    \/ size_nodes

SpecView == Init /\ [][NextView]_vars


\* the session of a user who shows and hides the sections of the page
NextPanels ==
    \/ create
    \/ toggle_popover_legend
    \/ toggle_popover_info
    \/ toggle_filter_collapse
    \/ toggle_result_collapse
    \/ show_result_on_evaluate
    \/ toggle_history_collapse
    \/ toggle_color_collapse
    \/ toggle_size_collapse
    \/ unwired_button

SpecPanels == Init /\ [][NextPanels]_vars


\* the session of a user who composes a query from the dropdowns and the text
\* area, evaluates it and reads the history
NextBuffer ==
    \/ create
    \/ sparql_keywords_dropdown
    \/ sparql_variables_dropdown
    \/ sparql_syntax_dropdown
    \/ add_to_query_button({ QueryTable[1].text })
    \/ delete_query_button
    \/ evaluate_query_button
    \/ clear_query_history_button
    \/ query_history_length_slider

SpecBuffer == Init /\ [][NextBuffer]_vars

\* the inputs that more than one callback of create is registered for
NextShared ==
    \/ create
    \/ graph_selection
    \/ add_node_edge_to_query_button
    \/ delete_query_button
    \/ evaluate_query_button
    \/ show_result_on_evaluate
    \/ color_legend_toggle
    \/ toggle_popover_legend

SpecShared == Init /\ [][NextShared]_vars


\* the session of a user who writes a query by clicking on the graph
NextSelect ==
    \/ create
    \/ graph_selection
    \/ add_node_edge_to_query_button
    \/ sparql_variables_dropdown
    \/ delete_query_button

SpecSelect == Init /\ [][NextSelect]_vars


\* ======================================================== the properties
EngineErrors == { "ParsingError", "LexingError" }
IsPrefix(a, b) == Len(a) <= Len(b) /\ SubSeq(b, 1, Len(a)) = a
\* the bound terms of a result, in result order
BoundTerms(rows) == Concat(rows)
AllNamed(terms) == \A i \in 1..Len(terms) : terms[i].kind = "entity"
\* a step of setting_pane_callback that runs the query filter
EvaluationStep == evaluate_query_button \/ query_history_length_slider
\* the texts the pending query buffer holds when the user writes with Add and Delete
\* (an added text takes at least 4 symbols of the buffer)
QueryTexts ==
    { q \in { Concat(fs) : fs \in SeqsUpTo({ << " " >> \o v : v \in TextAreaValues },
                                            MaxQueryLen \div 4) } : Len(q) <= MaxQueryLen }
\* the numbered line of entry i of the history
EntryLine(i, q) == IntToStr(i) \o << ":", " " >> \o q \o << "\n" >>
\* h is the buffer that holds the queries qs as entries 1..Len(qs)
IsHistoryOf(h, qs) == h = Concat([i \in 1..Len(qs) |-> EntryLine(i, qs[i])])
\* the last k entries of that buffer
LastEntries(qs, k) ==
    Concat([j \in 1..k |-> EntryLine(Len(qs) - k + j, qs[Len(qs) - k + j])])

\* C1: after construction setting_pane_callback returns normally, without
\* raising, for every trigger it is registered for.
C1_HandlerReturns == raised = "none"

\* C2: when the query engine fails, the query filter raises nothing and the
\* result text is the fixed message of the failure: 'no query entered' for a
\* parse error, 'not a valid query' for a lexical error.
C2_FailureGivesMessage ==
    /\ outcome.kind = "ParsingError" =>
          raised \notin EngineErrors /\ flat_res_list_children = NO_QUERY_MSG
    /\ outcome.kind = "LexingError" =>
          raised \notin EngineErrors /\ flat_res_list_children = INVALID_QUERY_MSG

C2_Witness ==
    /\ input_id = "evaluate_query_button"
    /\ outcome.kind = "LexingError"
    /\ flat_res_list_children = INVALID_QUERY_MSG

C4_NamedResultFilters ==
    (outcome.kind = "rows" /\ AllNamed(BoundTerms(outcome.rows))) =>
        LET terms == BoundTerms(outcome.rows)
        IN  /\ Ids(graph_data.nodes) =
                 { x \in Range(NodeIds) : \E i \in 1..Len(terms) : terms[i].name = x }
            /\ \A i \in 1..Len(graph_data.nodes) :
                 graph_data.nodes[i] = node[graph_data.nodes[i].id]
            /\ flat_res_list_children =
                 Concat([i \in 1..Len(terms) |-> << terms[i].name, "\n" >>])

C4_Witness ==
    /\ outcome.kind = "rows"
    /\ outcome.rows = << << Named("B") >>, << Named("knows") >>, << Named("A") >> >>
    /\ Ids(graph_data.nodes) = { "A", "B" }
    /\ flat_res_list_children = << "B", "\n", "knows", "\n", "A", "\n" >>

\* C5: when a bound term of the result is a primitive value, also next to
\* named entities, the graph returned is the full unfiltered data set and the
\* result text contains the primitive values as text.
C5_PrimitiveResultShowsAll ==
    (outcome.kind = "rows" /\ ~AllNamed(BoundTerms(outcome.rows))) =>
        LET terms == BoundTerms(outcome.rows)
        IN  /\ graph_data = Graph(data)
            /\ Ids(graph_data.nodes) = Range(NodeIds)
            /\ Ids(graph_data.edges) = Range(EdgeIds)
            /\ \A i \in 1..Len(terms) :
                 terms[i].kind = "primitive" =>
                    Contains(flat_res_list_children, IntToStr(terms[i].value))

C5_Witness ==
    /\ outcome.kind = "rows"
    /\ outcome.rows = << << Named("A"), Prim(3) >> >>
    /\ Ids(graph_data.nodes) = Range(NodeIds)
    /\ flat_res_list_children = << "A", "\n", "3", "\n" >>

\* C6: a successful evaluation increments the history counter by exactly 1 and
\* appends exactly one entry (new counter value, current query text) at the
\* end of the history; what the history held stays as its prefix.
C6_SuccessAppendsOne ==
    [][ (EvaluationStep /\ outcome'.kind = "rows") =>
          /\ counter_query_history' = counter_query_history + 1
          /\ sparql_query_history' =
               sparql_query_history \o EntryLine(counter_query_history + 1, sparql_query) ]_vars

C6_Witness ==
    /\ outcome.kind = "rows"
    /\ counter_query_history = 2
    /\ \E q \in QueryTexts \ { sparql_query } :
          sparql_query_history = EntryLine(1, q) \o EntryLine(2, sparql_query)

\* C7: an evaluation that fails with a parse or lexical error leaves the
\* history buffer and the history counter unchanged.
C7_FailureKeepsHistory ==
    [][ (EvaluationStep /\ outcome'.kind \in EngineErrors) =>
          UNCHANGED << sparql_query_history, counter_query_history >> ]_vars

C7_Witness ==
    /\ outcome.kind = "LexingError"
    /\ counter_query_history = 1
    /\ sparql_query_history # << >>

\* C8: the history counter is the number of entries of the history, which are
\* numbered 1..counter; the clear action sets the counter to 0 and the history
\* to empty together; no other step lowers the counter or removes an entry.
C8_CounterMatchesHistory ==
    /\ [](\E qs \in [1..counter_query_history -> QueryTexts] :
             IsHistoryOf(sparql_query_history, qs))
    /\ [][ clear_query_history_button =>
             counter_query_history' = 0 /\ sparql_query_history' = << >> ]_vars
    /\ [][ ~clear_query_history_button =>
             /\ counter_query_history' >= counter_query_history
             /\ IsPrefix(sparql_query_history, sparql_query_history') ]_vars

\* the history is cleared after an evaluation that was recorded and had
\* filtered the view to node A
C8_Witness ==
    /\ input_id = "clear-query-history-button"
    /\ counter_query_history = 0
    /\ sparql_query_history = << >>
    /\ filtered_data.nodes = << "A" >>

\* C9: the history view is exactly the last min(N, number of entries) entries
\* of the buffer, complete and in order, whatever the recorded query texts are.
C9_ViewIsLastEntries ==
    input_id \in { "evaluate_query_button", "query-history-length-slider",
                   "clear-query-history-button" } =>
        \A qs \in [1..counter_query_history -> QueryTexts] :
            IsHistoryOf(sparql_query_history, qs) =>
                sparql_query_history_children =
                    LastEntries(qs, Min(query_history_length, counter_query_history))

\* C10: a change of the history-length slider modifies neither the history
\* buffer nor the history counter (the query is not evaluated again).
C10_SliderIsPure ==
    [][ query_history_length_slider =>
          UNCHANGED << sparql_query_history, counter_query_history >> ]_vars

\* ------------------------------------------------------- the search filter
\* a step of setting_pane_callback triggered by the search text t
SearchStep(t) == Dispatch(Event("search_graph", t, 0), query_history_length)
\* the label contains the text, letter case ignored
ContainsIgnoringCase(label, t) == Contains(Lower(label), Lower(t))
\* the edges of g whose label contains t
MatchingEdges(g, t) == { i \in 1..Len(g.edges) : ContainsIgnoringCase(g.edges[i].label, t) }
\* n is an endpoint of an edge of g whose label contains t
IsMatchingEndpoint(g, n, t) ==
    \E i \in MatchingEdges(g, t) : g.edges[i].from = n.id \/ g.edges[i].to = n.id
HiddenFlags(g) == [i \in 1..Len(g.nodes) |-> g.nodes[i].hidden]
\* the graph with the hidden flags blanked
WithoutHidden(g) ==
    [ g EXCEPT !.nodes = [i \in 1..Len(g.nodes) |-> [ g.nodes[i] EXCEPT !.hidden = FALSE ]] ]

\* C11: after the search filter ran with text t, a node is hidden if and only
\* if its label does not contain t and it is no endpoint (by node id) of an
\* edge whose label contains t.
C11_HiddenIffNoMatch ==
    [][ \A t \in SearchTexts : SearchStep(t) =>
          \A i \in 1..Len(graph_data'.nodes) :
              graph_data'.nodes[i].hidden <=>
                  /\ ~ContainsIgnoringCase(graph_data'.nodes[i].label, t)
                  /\ ~IsMatchingEndpoint(graph_data', graph_data'.nodes[i], t) ]_vars

\* C12: search texts that differ only in letter case give the same hidden
\* flags: the flags a text gives are those its lower-case form gives.
C12_SearchIgnoresCase ==
    [][ \A t \in SearchTexts : SearchStep(t) =>
          HiddenFlags(graph_data') =
              HiddenFlags(callback_search_graph(displayed, Lower(t))) ]_vars

\* C13: the search filter changes hidden flags only: the nodes and edges, their
\* order and every other attribute are as before, in the graph it returns
\* and in the session.
C13_SearchOnlyHides ==
    [][ \A t \in SearchTexts : SearchStep(t) =>
          /\ WithoutHidden(graph_data') = WithoutHidden(displayed)
          /\ UNCHANGED << node, edge, data, filtered_data >> ]_vars

\* a search that hides some nodes of the graph and shows others
C13_Witness ==
    /\ input_id = "search_graph"
    /\ \E i \in 1..Len(graph_data.nodes) : graph_data.nodes[i].hidden
    /\ \E i \in 1..Len(graph_data.nodes) : ~graph_data.nodes[i].hidden
    /\ Len(graph_data.nodes) = Len(NodeIds)

\* ------------------------------------------------------------ the colouring
ColorNodesStep(v) == Dispatch(Event("color_nodes", v, 0), query_history_length)
ColorEdgesStep(v) == Dispatch(Event("color_edges", v, 0), query_history_length)
\* the values of column col over the records recs of the full set ids
ValueSet(recs, ids, col) == { recs[ids[i]][col] : i \in 1..Len(ids) }
\* mapping has one entry per value of col, and the colours of the records are
\* those the mapping gives their values: equal exactly for equal values
ColoredBy(recs, ids, col, mapping) ==
    /\ DOMAIN mapping = ValueSet(recs, ids, col)
    /\ \A x, y \in Range(ids) :
          (recs[x].color = recs[y].color) <=> (recs[x][col] = recs[y][col])
    /\ \A x \in Range(ids) : recs[x].color = mapping[recs[x][col]]

\* C14: colour-by-'None' leaves every node (every edge) of the full set with
\* the default colour and the empty value-colour mapping, whatever colouring
\* ran before: 'None', an attribute, 'None' again ends in the default colours.
C14_NoneRestoresDefaultColor ==
    [][ /\ ColorNodesStep("None") =>
             /\ \A x \in Range(data'.nodes) : node'[x].color = DEFAULT_COLOR
             /\ node_value_color_mapping' = << >>
        /\ ColorEdgesStep("None") =>
             /\ \A x \in Range(data'.edges) : edge'[x].color = DEFAULT_COLOR
             /\ edge_value_color_mapping' = << >> ]_vars

\* nodes and edges are back at the default colour after both were coloured
\* by create and reset by the user
C14_Witness ==
    /\ input_id \in { "color_nodes", "color_edges" }
    /\ \A x \in Range(data.nodes) : node[x].color = DEFAULT_COLOR
    /\ \A x \in Range(data.edges) : edge[x].color = DEFAULT_COLOR
    /\ node_value_color_mapping = << >>
    /\ edge_value_color_mapping = << >>
    /\ raised = "none"

\* C15: colouring by an attribute with at most 20 distinct values returns a
\* mapping with exactly one entry per distinct value; two entities have the
\* same colour iff they have the same value, and each has its value's colour.
C15_OneColorPerValue ==
    [][ /\ \A v \in Range(ColorNodesOptions) \ { "None" } :
             (ColorNodesStep(v)
                /\ Cardinality(ValueSet(node, data.nodes, v)) <= Len(KELLY_COLORS_HEX)) =>
                  ColoredBy(node', data'.nodes, v, node_value_color_mapping')
        /\ \A v \in Range(ColorEdgesOptions) \ { "None" } :
             (ColorEdgesStep(v)
                /\ Cardinality(ValueSet(edge, data.edges, v)) <= Len(KELLY_COLORS_HEX)) =>
                  ColoredBy(edge', data'.edges, v, edge_value_color_mapping') ]_vars

\* the user coloured the nodes by the attribute with values T, A, A
C15_Witness ==
    /\ input_id = "color_nodes"
    /\ raised = "none"
    /\ DOMAIN node_value_color_mapping = { "T", "A" }
    /\ node["A"].color # node["B"].color
    /\ node["B"].color = node["C"].color
    /\ node["A"].color = node_value_color_mapping["T"]

\* C16: colouring the nodes by a column with more distinct values than the
\* palette has colours is not an error: the callback returns, and every node
\* of the full set has one of the palette's colours (shared where they run out).
C16_ManyValuesIsNoError ==
    [][ \A v \in Range(NodeColumns) \cap ObjectColumns :
            (ColorNodesStep(v)
               /\ Cardinality(ValueSet(node, data.nodes, v)) > Len(KELLY_COLORS_HEX)) =>
                 /\ raised' = "none"
                 /\ \A x \in Range(data'.nodes) :
                        node'[x].color \in Range(KELLY_COLORS_HEX) ]_vars

\* ---------------------------------------------------------------- the sizing
SizeNodesStep(v) == Dispatch(Event("size_nodes", v, 0), query_history_length)
SizeEdgesStep(v) == Dispatch(Event("size_edges", v, 0), query_history_length)
\* the numeric node columns the scaling table gives a proper range
RangedColumns == { v \in DOMAIN scaling_vars.node :
                       scaling_vars.node[v].min < scaling_vars.node[v].max }
\* the sizes of the nodes of the full set in session S
SizesIn(S) == [ x \in Range(S.data.nodes) |-> S.node[x].size ]

\* C17: after size-by-attribute on a numeric node column with min < max every
\* node has the default size plus its value mapped linearly into [0, 20]:
\* 7 for a node with the minimum value, 27 for one with the maximum.
C17_SizeIsDefaultPlusScale ==
    [][ \A v \in RangedColumns :
            SizeNodesStep(v) =>
                \A x \in Range(data'.nodes) :
                    /\ node'[x].size = DEFAULT_NODE_SIZE
                          + scale_val(node'[x][v], scaling_vars.node[v].min,
                                      scaling_vars.node[v].max)
                    /\ node'[x][v] = scaling_vars.node[v].min =>
                          node'[x].size = DEFAULT_NODE_SIZE
                    /\ node'[x][v] = scaling_vars.node[v].max =>
                          node'[x].size = DEFAULT_NODE_SIZE + 20 ]_vars

\* C18: size-by-attribute on nodes is idempotent: once the nodes were sized by
\* a column b, sizing them by b again changes no size, and sizing them by a
\* column a gives the sizes that sizing by a gave before b.
C18_SizeNodesIdempotent ==
    [][ \A b \in RangedColumns :
            SizeNodesStep(b) =>
                /\ SizesIn(callback_size_nodes(Session', b)) = SizesIn(Session')
                /\ \A a \in RangedColumns :
                       SizesIn(callback_size_nodes(Session', a))
                           = SizesIn(callback_size_nodes(Session, a)) ]_vars

\* C20: size-by-'None' leaves every node of the full set with the default
\* size 7, every edge with the default width 1, whatever sizing ran before.
C20_NoneResetsSizes ==
    [][ /\ SizeNodesStep("None") =>
             \A x \in Range(data'.nodes) : node'[x].size = DEFAULT_NODE_SIZE
        /\ SizeEdgesStep("None") =>
             \A x \in Range(data'.edges) : edge'[x].width = DEFAULT_EDGE_SIZE ]_vars

\* create sized the nodes and the edges by their weights, the user reset both
C20_Witness ==
    /\ pc = "running"
    /\ input_id \in { "size_nodes", "size_edges" }
    /\ \A x \in Range(data.nodes) : node[x].size = DEFAULT_NODE_SIZE
    /\ \A x \in Range(data.edges) : edge[x].width = DEFAULT_EDGE_SIZE
    /\ \E x \in Range(data.nodes) : node[x].weight # scaling_vars.node.weight.min
    /\ \E x \in Range(data.edges) : edge[x].weight # DEFAULT_EDGE_SIZE

\* the numeric node columns whose scaling-table minimum equals the maximum
FlatColumns == { v \in DOMAIN scaling_vars.node :
                     scaling_vars.node[v].min = scaling_vars.node[v].max }

\* C19: size-by-attribute on a numeric node column whose minimum equals its
\* maximum does not fail and adds zero to every node's size, in the start-up
\* sizing of create as in a size_nodes request.
C19_EqualBoundsAddZero ==
    [][ /\ \A v \in FlatColumns :
               SizeNodesStep(v) =>
                   /\ callback_size_nodes(Session, v).raised = "none"
                   /\ SizesIn(Session') = SizesIn(Session)
        /\ (create /\ FlatColumns # {}) =>
               /\ raised' = "none"
               /\ SizesIn(Session') = SizesIn(Session) ]_vars

\* ------------------------------------------------- the view and the full set
\* C21: in every state the node ids and the edge ids of the filtered view are
\* among those of the full data set, and the full data set holds exactly the
\* nodes and edges it was constructed with.
C21_ViewWithinFullSet ==
    /\ Range(filtered_data.nodes) \subseteq Range(data.nodes)
    /\ Range(filtered_data.edges) \subseteq Range(data.edges)
    /\ data.nodes = NodeIds
    /\ data.edges = EdgeIds
    /\ DOMAIN node = Range(NodeIds)
    /\ DOMAIN edge = Range(EdgeIds)

\* a query has narrowed the view to node A, and the nodes were restyled since
C21_Witness ==
    /\ pc = "running"
    /\ aliased = FALSE
    /\ counter_query_history > 0
    /\ filtered_data.nodes = << "A" >>
    /\ input_id \in { "color_nodes", "size_nodes" }

\* the colour and size inputs of setting_pane_callback with their options
StylingEvents ==
    { Event("color_nodes", v, 0) : v \in Range(ColorNodesOptions) }
      \cup { Event("color_edges", v, 0) : v \in Range(ColorEdgesOptions) }
      \cup { Event("size_nodes", v, 0) : v \in Range(SizeNodesOptions) }
      \cup { Event("size_edges", v, 0) : v \in Range(SizeEdgesOptions) }
\* the records of the full set d whose ids are in the view f, in d's order
Restricted(d, f) ==
    [ nodes |-> SelectSeq(d.nodes, LAMBDA x : x \in Range(f.nodes)),
      edges |-> SelectSeq(d.edges, LAMBDA x : x \in Range(f.edges)) ]

\* C22: a colour or size operation leaves the ids of the filtered view as they
\* were, and the view it returns is the restyled records of the full set
\* whose ids were in the filtered view before it.
C22_StylingKeepsView ==
    [][ \A ev \in StylingEvents :
            (input_id' = ev.id /\ Dispatch(ev, query_history_length)) =>
                /\ Range(filtered_data'.nodes) = Range(filtered_data.nodes)
                /\ Range(filtered_data'.edges) = Range(filtered_data.edges)
                /\ Range(graph_data'.nodes)
                      = Range(GraphOf(Restricted(data', filtered_data), node', edge').nodes)
                /\ Range(graph_data'.edges)
                      = Range(GraphOf(Restricted(data', filtered_data), node', edge').edges) ]_vars

\* the view narrowed to node A was restyled and returned with A's new colour
C22_Witness ==
    /\ input_id = "color_nodes"
    /\ counter_query_history > 0
    /\ filtered_data.nodes = << "A" >>
    /\ Len(graph_data.nodes) = 1
    /\ graph_data.nodes[1].id = "A"
    /\ graph_data.nodes[1].color # DEFAULT_COLOR
    /\ graph_data.nodes[1].color = node["A"].color

\* ---------------------------------------------------------------- the panels
\* C23: a click on the button of a panel flips the is_open flag of that panel
\* and leaves the flag of every other panel as it was, so that a second click
\* on the same button restores the flag.
C23_ClickFlipsOnePanel ==
    [][ \A p \in Panels :
            (panel_buttons /\ clicked' = PanelButton[p]) =>
                /\ is_open'[p] = ~is_open[p]
                /\ \A q \in Panels \ { p } : is_open'[q] = is_open[q] ]_vars

\* --------------------------------------------------- one input, one handler
\* the user changes input and a callback registered for it runs
Interaction(input) ==
    \/ input = "graph" /\ graph_selection
    \/ input = "delete_query_button" /\ delete_query_button
    \/ input = "evaluate_query_button" /\ (evaluate_query_button \/ show_result_on_evaluate)
    \/ input = "color-legend-toggle" /\ (color_legend_toggle \/ toggle_popover_legend)

\* C24 as claimed: an interaction calls one handler; no input is a trigger of
\* more than one callback that reads or writes the session.
C24_OneHandlerPerInput ==
    [][ \A input \in SettingInputs \cup EditInputs :
            Interaction(input) =>
                Cardinality({ c \in Triggered(input) : c.session # "none" }) <= 1 ]_vars

\* C24 as amended: an interaction calls every callback registered for its
\* input, and no input is a trigger of more than one callback that writes
\* the session; the others it triggers only read it or only set a panel flag.
C24_OneWriterPerInput ==
    [][ \A input \in SettingInputs \cup EditInputs :
            Interaction(input) =>
                Cardinality({ c \in Triggered(input) : c.session = "writes" }) <= 1 ]_vars

\* a click on node A was appended to the buffer by edit_sparql_query, one of
\* the three callbacks of a graph selection
C24_Witness ==
    /\ sparql_query = << " ", ":", "A" >>
    /\ Cardinality(Triggered("graph")) = 3
    /\ Cardinality({ c \in Triggered("graph") : c.session = "writes" }) = 1

\* ------------------------------------------------------- the query buffer
GraphStep(sel) == edit_sparql_query(EditEvent("graph", sel, 0, on_select))
\* the reference token of the selected element: ' :' and the id of the node,
\* ' :' and the label of the edge
Token(sel) ==
    IF sel.nodes # << >> THEN << " ", ":", node[sel.nodes[1]].id >>
    ELSE << " ", ":" >> \o edge[sel.edges[1]].label

\* C25 as claimed: every selection of a node or an edge appends the one
\* reference token of that element to the pending query buffer.
C25_SelectionAppendsToken ==
    [][ \A sel \in Selections :
            GraphStep(sel) => sparql_query' = sparql_query \o Token(sel) ]_vars

\* C25 as amended: while the 'Select Edge/Node' switch is on, every selection
\* of a node or an edge appends the one reference token of that element to
\* the buffer; while the switch is off a selection leaves the buffer as it is.
C25_SelectionAppendsTokenWhenOn ==
    [][ \A sel \in Selections :
            GraphStep(sel) =>
                sparql_query' = IF on_select THEN sparql_query \o Token(sel)
                                ELSE sparql_query ]_vars

\* with the switch on, node B was clicked after something was in the buffer;
\* its edges were selected along with it
C25_Witness ==
    /\ on_select
    /\ selection = [ nodes |-> << "B" >>, edges |-> << "e1", "e2" >> ]
    /\ Len(sparql_query) > 3
    /\ SubSeq(sparql_query, Len(sparql_query) - 2, Len(sparql_query)) = << " ", ":", "B" >>

\* C26: Delete empties the pending query buffer; the keyword, variable and
\* syntax dropdowns and Add only append to it, the buffer before being a
\* prefix of the buffer after; evaluating the query, clearing the history and
\* moving the history slider leave it as it is.
C26_BufferEdits ==
    [][ /\ delete_query_button => sparql_query' = << >>
        /\ ( \/ sparql_keywords_dropdown
             \/ sparql_variables_dropdown
             \/ sparql_syntax_dropdown
             \/ add_to_query_button(TextAreaValues) ) =>
               IsPrefix(sparql_query, sparql_query')
        /\ ( \/ evaluate_query_button
             \/ clear_query_history_button
             \/ query_history_length_slider ) => sparql_query' = sparql_query ]_vars

\* a query was evaluated and recorded, then deleted from the buffer, and a
\* keyword was chosen
C26_Witness ==
    /\ counter_query_history = 1
    /\ sparql_query = << " ", "SELECT" >>

\* ------------------------------------------------------ the colour options
\* C27: get_categorical_features returns no feature named in its
\* blacklist_features, whichever of them are among the candidate columns, and
\* 'None' first: so for the options get_app_layout gives the colour dropdowns.
C27_NoBlacklistedOption ==
    pc = "running" =>
        /\ Range(options.color_nodes) \cap Range(NodeBlacklist) = {}
        /\ Range(options.color_edges) \cap Range(EdgeBlacklist) = {}
        /\ options.color_nodes[1] = "None"
        /\ options.color_edges[1] = "None"

\* --------------------------------------------------- the filter and the view
\* the views an earlier filter can have left: the nodes of the full set with
\* their ids in a set K
Views == { SelectSeq(data.nodes, LAMBDA x : x \in K) : K \in SUBSET Range(data.nodes) }
\* the session as it would be had an earlier filter left the view F
WithView(F) == [ Session EXCEPT !.filtered_data = [ @ EXCEPT !.nodes = F ],
                                !.aliased = FALSE ]

\* C28: the node ids a successful query filter gives for display depend on
\* the full data set and the result only: whatever view an earlier evaluation
\* had left, the filter would have given the same ids as it gives now.
C28_FilterIgnoresEarlierView ==
    [][ (evaluate_query_button /\ outcome'.kind = "rows") =>
            \A F \in Views :
                Ids(callback_filter_nodes(WithView(F)).graph_data.nodes)
                    = Ids(graph_data'.nodes) ]_vars

\* the query for node A was evaluated after the query for node C had narrowed
\* the view to C
C28_Witness ==
    /\ input_id = "evaluate_query_button"
    /\ IsHistoryOf(sparql_query_history,
                   << << " " >> \o QueryTable[3].text, << " " >> \o QueryTable[1].text >>)
    /\ Ids(graph_data.nodes) = { "A" }

\* no id stands at two places of the list
NoRepeat(ids) == \A i, j \in 1..Len(ids) : ids[i] = ids[j] => i = j

\* C29: after a successful query filter no node id is twice in the filtered
\* view, however often the result binds the entity.
C29_ViewIdsUnique ==
    (input_id = "evaluate_query_button" /\ outcome.kind = "rows") =>
        /\ NoRepeat(filtered_data.nodes)
        /\ NoRepeat([i \in 1..Len(graph_data.nodes) |-> graph_data.nodes[i].id])

\* ------------------------------------------------- the search and the styling
\* the ids of the nodes of g with the hidden flag set
HiddenIds(g) == { g.nodes[i].id : i \in { j \in 1..Len(g.nodes) : g.nodes[j].hidden } }

\* C30: the hidden flags the search filter set survive a later colour or size
\* operation: a node hidden in the graph the search gave for display is hidden
\* in the graph the operation returns.
C30_HiddenSurvivesStyling ==
    [][ \A ev \in StylingEvents :
            (Dispatch(ev, query_history_length) /\ input_id = "search_graph") =>
                HiddenIds(graph_data) \cap Ids(graph_data'.nodes)
                    \subseteq HiddenIds(graph_data') ]_vars

\* no search result reaches the browser: no node of the graph it shows is hidden
NothingHiddenInBrowser == HiddenIds(displayed) = {}

=============================================================================
